---- MODULE Spec2Model ----
(***************************************************************************)
(* poed: the text buffer / cursor model of src/src/main.rs (struct Poem),  *)
(* and the key dispatch of the edit loop in main().                        *)
(*                                                                         *)
(* A buffer is a sequence of one-character strings.  The buffer holds      *)
(* single-byte characters only, so byte offsets and character offsets      *)
(* coincide, and it holds no carriage return, so str::lines() strips       *)
(* nothing but the line feed.                                              *)
(***************************************************************************)
EXTENDS Integers, Sequences, FiniteSets, TLC

\* Longest buffer explored (the program's buffer grows without bound).
MaxLen == 4

\* Longest buffer laid out by DrawSpec, and the largest terminal it draws on.
MaxDrawLen == 9

MaxCols == 18

MaxRows == 6

\* Width of the u16 that get_cursor_offset, Key::Down and draw_screen compute in.
U16 == 65536

X_PADDING == 3

Y_PADDING == 1

NL == "\n"

\* Characters a Key::Char event can carry: Enter is Key::Char('\n').
Chars == {"a", NL}

\* The path given on the command line, when one is given.
LoadPath == <<"f">>

\* A path longer than the label of an unnamed buffer.
LongPath == <<"p", "o", "e", "m", "s", "/", "a", ".", "t", "x", "t">>

\* String::from("<no name>")
NoName == <<"<", "n", "o", " ", "n", "a", "m", "e", ">">>

\* What terminal_size() returns while Spec runs: (columns, rows).
TermSize == <<80, 24>>

\* What terminal_size() may return while DrawSpec runs.
TermSizes == ((MaxCols - 1)..MaxCols) \X ((MaxRows - 1)..MaxRows)

\* Option<String>: None is <<>>, Some(s) is <<s>>.
None == <<>>

Some(s) == <<s>>

VARIABLES
    buffer,           \* Poem::buffer
    cursor,           \* Poem::cursor
    target_line_pos,  \* Poem::target_line_pos
    name,             \* Poem::name
    state,            \* "Running", "Exiting" (left 'run), "Aborted" (panic), "Hung"
    written,          \* the std::fs::write call of the last key handler, or None
    key,              \* the key event handled last ("Start" before the first)
    pre,              \* buffer, cursor and name as they were before that event
    char,             \* the c of that event when it was Key::Char(c), else ""
    size              \* terminal_size() as the last draw_screen read it

vars == <<buffer, cursor, target_line_pos, name, state, written, key, pre, char, size>>

\* Results of cursor arithmetic that did not produce a cursor.
Panicked == -1

Diverged == -2

\* All strings over Chars of length at most n.
RECURSIVE Strings(_)
Strings(n) ==
    IF n = 0 THEN {<<>>}
    ELSE LET shorter == Strings(n - 1)
         IN shorter \cup {Append(s, c) : s \in {t \in shorter : Len(t) = n - 1}, c \in Chars}

---------------------------------------------------------------------------
(* str::split('\n') and str::lines()                                       *)

\* str::split('\n'): the pieces between line feeds; n line feeds give n+1 pieces.
RECURSIVE Split(_)
Split(s) ==
    IF \A i \in 1..Len(s) : s[i] # NL THEN <<s>>
    ELSE LET i == CHOOSE k \in 1..Len(s) : s[k] = NL /\ \A j \in 1..(k - 1) : s[j] # NL
         IN <<SubSeq(s, 1, i - 1)>> \o Split(SubSeq(s, i + 1, Len(s)))

\* str::lines(): as split('\n'), but a final empty piece is not a line
\* ("" has no lines, "a\n" has one).
Lines(s) ==
    LET p == Split(s)
    IN IF p[Len(p)] = <<>> THEN SubSeq(p, 1, Len(p) - 1) ELSE p

\* An insert that ignores idx and pushes ch at the end.
InsertAtEnd(s, idx, c) == Append(s, c)

\* String::insert(idx, ch), for idx <= len.
Insert(s, idx, c) == SubSeq(s, 1, idx) \o <<c>> \o SubSeq(s, idx + 1, Len(s))

\* String::remove(idx), for idx < len.
Remove(s, idx) == SubSeq(s, 1, idx) \o SubSeq(s, idx + 2, Len(s))

\* String::pop(), for a non-empty string.
Pop(s) == SubSeq(s, 1, Len(s) - 1)

---------------------------------------------------------------------------
(* Poem::get_cursor_offset                                                 *)

\* The for loop: lens[idx] is the split piece's length plus one.
RECURSIVE OffsetLoop(_, _, _)
OffsetLoop(lens, idx, counter) ==
    IF idx > Len(lens) THEN <<0, 0>>
    ELSE IF counter >= lens[idx] THEN OffsetLoop(lens, idx + 1, counter - lens[idx])
    ELSE <<counter % U16, (idx - 1) % U16>>

\* get_cursor_offset with a line's consumed length lacking the line feed.
GetCursorOffsetNoSeparator(buf, cur) ==
    LET pieces == Split(buf)
    IN OffsetLoop([i \in 1..Len(pieces) |-> Len(pieces[i])], 1, cur)

\* (column, row) of offset cur; (0, 0) when no piece holds it.
GetCursorOffset(buf, cur) ==
    LET pieces == Split(buf)
    IN OffsetLoop([i \in 1..Len(pieces) |-> Len(pieces[i]) + 1], 1, cur)

---------------------------------------------------------------------------
(* Poem::cursor_end_line, Poem::cursor_start_line                          *)

\* The new cursor, or Panicked: nth(row) is None, or the subtraction overflows.
CursorEndLine(buf, cur) ==
    LET pos == GetCursorOffset(buf, cur)
        ls  == Lines(buf)
    IN IF pos[2] + 1 > Len(ls) THEN Panicked
       ELSE IF Len(ls[pos[2] + 1]) < pos[1] THEN Panicked
       ELSE cur + (Len(ls[pos[2] + 1]) - pos[1])

\* cursor_start_line that stops one column short of the line start.
RECURSIVE CursorStartLineShort(_, _)
CursorStartLineShort(buf, cur) ==
    IF GetCursorOffset(buf, cur)[1] <= 1 THEN cur
    ELSE IF cur = 0 THEN Panicked
    ELSE CursorStartLineShort(buf, cur - 1)

RECURSIVE CursorStartLine(_, _)
CursorStartLine(buf, cur) ==
    IF GetCursorOffset(buf, cur)[1] = 0 THEN cur
    ELSE IF cur = 0 THEN Panicked
    ELSE CursorStartLine(buf, cur - 1)

---------------------------------------------------------------------------
(* The vertical moves of main(): Key::Up and Key::Down                     *)

\* while get_cursor_offset().0 != target { cursor -= 1 }
RECURSIVE WalkLeft(_, _, _)
WalkLeft(buf, cur, target) ==
    IF GetCursorOffset(buf, cur)[1] = target THEN cur
    ELSE IF cur = 0 THEN Panicked
    ELSE WalkLeft(buf, cur - 1, target)

\* while get_cursor_offset().0 != target { cursor += 1 }
\* Past the end of the buffer the column stays 0, so the loop cannot stop.
RECURSIVE WalkRight(_, _, _)
WalkRight(buf, cur, target) ==
    IF GetCursorOffset(buf, cur)[1] = target THEN cur
    ELSE IF cur > Len(buf) THEN Diverged
    ELSE WalkRight(buf, cur + 1, target)

\* while current_pos.1 == get_cursor_offset().1 { cursor += 1 }
RECURSIVE WalkToNextLine(_, _, _)
WalkToNextLine(buf, cur, row) ==
    IF GetCursorOffset(buf, cur)[2] # row THEN cur
    ELSE IF cur > Len(buf) THEN Diverged
    ELSE WalkToNextLine(buf, cur + 1, row)

\* Key::Up whose jump to a shorter previous line forgets the line feed.
UpShortJump(buf, cur) ==
    LET current_pos == GetCursorOffset(buf, cur)
        target      == current_pos[1]
        ls          == Lines(buf)
    IN IF current_pos[2] = 0 THEN 0
       ELSE IF current_pos[2] > Len(ls) THEN Panicked
       ELSE LET prev_line_len == Len(ls[current_pos[2]])
            IN IF prev_line_len >= target
               THEN IF cur = 0 THEN Panicked ELSE WalkLeft(buf, cur - 1, target)
               ELSE cur - current_pos[1]

\* The Key::Up arm after target_line_pos is set: the new cursor, or Panicked.
Up(buf, cur) ==
    LET current_pos == GetCursorOffset(buf, cur)
        target      == current_pos[1]
        ls          == Lines(buf)
    IN IF current_pos[2] = 0 THEN 0
       ELSE IF current_pos[2] > Len(ls) THEN Panicked
       ELSE LET prev_line_len == Len(ls[current_pos[2]])
            IN IF prev_line_len >= target
               THEN IF cur = 0 THEN Panicked ELSE WalkLeft(buf, cur - 1, target)
               ELSE IF cur < current_pos[1] + 1 THEN Panicked
               ELSE cur - (current_pos[1] + 1)

\* The Key::Down arm after target_line_pos is set: the new cursor, Panicked or
\* Diverged.  checks: the build traps integer overflow (a debug build); without
\* it `count() as u16 - 1` wraps.
Down(buf, cur, checks) ==
    LET current_pos == GetCursorOffset(buf, cur)
        target      == current_pos[1]
        ls          == Lines(buf)
        count       == Len(ls) % U16
    IN IF count = 0 /\ checks THEN Panicked
       ELSE IF current_pos[2] = (count - 1) % U16 THEN CursorEndLine(buf, cur)
       ELSE IF current_pos[2] + 2 > Len(ls) THEN Panicked
       ELSE LET next_line_len == Len(ls[current_pos[2] + 2])
            IN IF next_line_len >= target
               THEN WalkRight(buf, cur + 1, target)
               ELSE LET moved == WalkToNextLine(buf, cur, current_pos[2])
                    IN IF moved < 0 THEN moved ELSE CursorEndLine(buf, moved)

---------------------------------------------------------------------------
(* make_input, get_name, frame_buffer, draw_screen                         *)
(* A row of the screen is a sequence of one-character strings; the box     *)
(* drawing characters of the frame are written "+", "-" and "|".           *)

Max(a, b) == IF a >= b THEN a ELSE b

\* str::repeat
Repeat(c, n) == [i \in 1..n |-> c]

\* The reduce of make_input: the first of the longest lines.
RECURSIVE Longest(_, _, _)
Longest(lines, i, acc) ==
    IF i > Len(lines) THEN acc
    ELSE Longest(lines, i + 1, IF Len(lines[i]) > Len(acc) THEN lines[i] ELSE acc)

\* make_input: <<lines, x size, y size>>.
MakeInput(input) ==
    IF Len(input) = 0 THEN <<<< <<" ">> >>, 1, 1>>
    ELSE LET ls    == Lines(input)
             lines == [i \in 1..Len(ls) |-> Append(ls[i], " ")]
         IN <<lines, Len(Longest(lines, 2, lines[1])), Len(lines)>>

GetName(maybe_name) == IF maybe_name = None THEN NoName ELSE maybe_name[1]

\* frame_buffer that does not widen the frame to the name.
FrameBufferNoFloor(input, x_size, maybe_name) ==
    LET top_line    == <<"+">> \o Repeat("-", x_size + X_PADDING * 2) \o <<"+">>
        pad_line    == <<"|">> \o Repeat(" ", x_size + X_PADDING * 2) \o <<"|">>
        bottom_line == <<"+">> \o Repeat("-", x_size + X_PADDING * 2) \o <<"+">>
        lines == [i \in 1..Len(input) |->
                    <<"|">> \o Repeat(" ", X_PADDING) \o input[i]
                    \o Repeat(" ", x_size - Len(input[i]))
                    \o Repeat(" ", X_PADDING) \o <<"|">>]
        res == <<top_line>> \o Repeat(pad_line, Y_PADDING) \o lines
               \o Repeat(pad_line, Y_PADDING) \o <<bottom_line>>
    IN <<res, x_size + 2 + X_PADDING * 2, Len(res)>>

\* frame_buffer: <<framed lines, x size, y size>>.
FrameBuffer(input, x_size, maybe_name) ==
    LET name_line   == GetName(maybe_name)
        xs          == Max(x_size, Len(name_line))
        top_line    == <<"+">> \o Repeat("-", xs + X_PADDING * 2) \o <<"+">>
        pad_line    == <<"|">> \o Repeat(" ", xs + X_PADDING * 2) \o <<"|">>
        bottom_line == <<"+">> \o Repeat("-", xs + X_PADDING * 2) \o <<"+">>
        lines == [i \in 1..Len(input) |->
                    <<"|">> \o Repeat(" ", X_PADDING) \o input[i]
                    \o Repeat(" ", xs - Len(input[i]))
                    \o Repeat(" ", X_PADDING) \o <<"|">>]
        res == <<top_line>> \o Repeat(pad_line, Y_PADDING) \o lines
               \o Repeat(pad_line, Y_PADDING) \o <<bottom_line>>
    IN <<res, xs + 2 + X_PADDING * 2, Len(res)>>

\* u16 subtraction as the build without overflow checks does it.
Sub16(a, b) == (a - b) % U16

\* draw_screen on a terminal of size sz.  panicked: a u16 operation
\* overflowed in a build that traps overflow (checks).  The positions are the
\* arguments of the three cursor::Goto.
DrawScreen(buf, cur, maybe_name, sz, checks) ==
    LET made   == MakeInput(buf)
        framed == FrameBuffer(made[1], made[2], None)
        xs     == framed[2]
        ys     == framed[3]
        frame_corner  == <<Sub16(sz[1] \div 2, (xs \div 2) % U16),
                           Sub16(sz[2] \div 2, (ys \div 2) % U16)>>
        cursor_offset == GetCursorOffset(buf, cur)
        cursor_x == frame_corner[1] + cursor_offset[1] + X_PADDING + 1
        cursor_y == frame_corner[2] + cursor_offset[2] + Y_PADDING + 1
    IN [frame        |-> framed[1],
        xs           |-> xs,
        ys           |-> ys,
        frame_corner |-> frame_corner,
        label_at     |-> <<frame_corner[1], Sub16(frame_corner[2], 1)>>,
        label        |-> GetName(maybe_name),
        cursor_at    |-> <<cursor_x % U16, cursor_y % U16>>,
        panicked     |-> /\ checks
                         /\ \/ sz[1] \div 2 < (xs \div 2) % U16
                            \/ sz[2] \div 2 < (ys \div 2) % U16
                            \/ frame_corner[2] < 1
                            \/ cursor_x >= U16
                            \/ cursor_y >= U16]

---------------------------------------------------------------------------
(* The save arm of main(): Key::Ctrl('s')                                  *)

\* str::split_once('\n'): None, or Some of the text before and after the
\* first line feed.
SplitOnce(s) ==
    IF \A i \in 1..Len(s) : s[i] # NL THEN None
    ELSE LET i == CHOOSE k \in 1..Len(s) : s[k] = NL /\ \A j \in 1..(k - 1) : s[j] # NL
         IN Some(<<SubSeq(s, 1, i - 1), SubSeq(s, i + 1, Len(s))>>)

---------------------------------------------------------------------------
(* The edit loop                                                           *)

Init ==
    /\ \/ buffer = <<>> /\ name = None
       \/ buffer \in Strings(MaxLen) /\ name = Some(LoadPath)
    /\ cursor = 0
    /\ target_line_pos = 0
    /\ state = "Running"
    /\ written = None
    /\ key = "Start"
    /\ pre = [buffer |-> buffer, cursor |-> cursor, name |-> name]
    /\ char = ""
    /\ size = TermSize

\* Bookkeeping of every handled key: the event, the character it carried and
\* the state it found.
HandledChar(k, c) ==
    /\ key' = k
    /\ pre' = [buffer |-> buffer, cursor |-> cursor, name |-> name]
    /\ char' = c
    /\ size' = size

Handled(k) == HandledChar(k, "")

\* The outcome c of a cursor computation becomes the cursor, or ends the loop.
\* A cursor past the end of the buffer is followed up to MaxLen + 1.
Land(c) ==
    /\ c <= MaxLen + 1
    /\ cursor' = IF c >= 0 THEN c ELSE cursor
    /\ state' = IF c = Panicked THEN "Aborted" ELSE IF c = Diverged THEN "Hung" ELSE "Running"

KeyEsc ==
    /\ state = "Running"
    /\ state' = "Exiting"
    /\ written' = None
    /\ Handled("Esc")
    /\ UNCHANGED <<buffer, cursor, target_line_pos, name>>

\* A save that derives a new name from the first line although the buffer
\* has a name.
KeySaveRenames ==
    \E ok \in BOOLEAN :
        /\ state = "Running"
        /\ IF name # None /\ SplitOnce(buffer) = None
           THEN /\ written' = <<name[1], buffer, ok>>
                /\ UNCHANGED <<buffer, name, state>>
           ELSE IF Lines(buffer) = <<>>
           THEN /\ state' = "Aborted"
                /\ written' = None
                /\ UNCHANGED <<buffer, name>>
           ELSE IF SplitOnce(buffer) = None
           THEN /\ name' = Some(Lines(buffer)[1])
                /\ state' = "Aborted"
                /\ written' = None
                /\ UNCHANGED buffer
           ELSE /\ name' = Some(Lines(buffer)[1])
                /\ buffer' = SplitOnce(buffer)[1][2]
                /\ written' = <<name'[1], buffer', ok>>
                /\ UNCHANGED state
        /\ Handled("Save")
        /\ UNCHANGED <<cursor, target_line_pos>>

\* A save that takes the first line out of an unnamed buffer only when the
\* write succeeded.
KeySaveTransactional ==
    \E ok \in BOOLEAN :
        /\ state = "Running"
        /\ IF name # None
           THEN /\ written' = <<name[1], buffer, ok>>
                /\ UNCHANGED <<buffer, name, state>>
           ELSE IF Lines(buffer) = <<>>
           THEN /\ state' = "Aborted"
                /\ written' = None
                /\ UNCHANGED <<buffer, name>>
           ELSE IF SplitOnce(buffer) = None
           THEN /\ name' = Some(Lines(buffer)[1])
                /\ state' = "Aborted"
                /\ written' = None
                /\ UNCHANGED buffer
           ELSE /\ name' = IF ok THEN Some(Lines(buffer)[1]) ELSE name
                /\ buffer' = IF ok THEN SplitOnce(buffer)[1][2] ELSE buffer
                /\ written' = <<Lines(buffer)[1], SplitOnce(buffer)[1][2], ok>>
                /\ UNCHANGED state
        /\ Handled("Save")
        /\ UNCHANGED <<cursor, target_line_pos>>

KeySave ==
    \E ok \in BOOLEAN :
        /\ state = "Running"
        /\ IF name # None
           THEN /\ written' = <<name[1], buffer, ok>>
                /\ UNCHANGED <<buffer, name, state>>
           ELSE IF Lines(buffer) = <<>>
           THEN /\ state' = "Aborted"
                /\ written' = None
                /\ UNCHANGED <<buffer, name>>
           ELSE IF SplitOnce(buffer) = None
           THEN /\ name' = Some(Lines(buffer)[1])
                /\ state' = "Aborted"
                /\ written' = None
                /\ UNCHANGED buffer
           ELSE /\ name' = Some(Lines(buffer)[1])
                /\ buffer' = SplitOnce(buffer)[1][2]
                /\ written' = <<name'[1], buffer', ok>>
                /\ UNCHANGED state
        /\ Handled("Save")
        /\ UNCHANGED <<cursor, target_line_pos>>

\* Key::Char(c): modify(Insert(c)).
KeyChar ==
    \E c \in Chars :
        /\ state = "Running"
        /\ Len(buffer) < MaxLen
        /\ IF cursor > Len(buffer)
           THEN state' = "Aborted" /\ UNCHANGED <<buffer, cursor>>
           ELSE /\ buffer' = Insert(buffer, cursor, c)
                /\ cursor' = cursor + 1
                /\ UNCHANGED state
        /\ written' = None
        /\ HandledChar("Char", c)
        /\ UNCHANGED <<target_line_pos, name>>

\* Key::Backspace: modify(DeleteLeft).
KeyBackspace ==
    /\ state = "Running"
    /\ IF cursor = 0 THEN UNCHANGED <<buffer, cursor, state>>
       ELSE IF cursor = Len(buffer)
       THEN buffer' = Pop(buffer) /\ cursor' = cursor - 1 /\ UNCHANGED state
       ELSE IF cursor - 1 >= Len(buffer)
       THEN state' = "Aborted" /\ UNCHANGED <<buffer, cursor>>
       ELSE buffer' = Remove(buffer, cursor - 1) /\ cursor' = cursor - 1 /\ UNCHANGED state
    /\ written' = None
    /\ Handled("Backspace")
    /\ UNCHANGED <<target_line_pos, name>>

\* Key::Delete: modify(DeleteRight).
KeyDelete ==
    /\ state = "Running"
    /\ IF cursor = Len(buffer) THEN UNCHANGED <<buffer, state>>
       ELSE IF cursor > Len(buffer) THEN state' = "Aborted" /\ UNCHANGED buffer
       ELSE buffer' = Remove(buffer, cursor) /\ UNCHANGED state
    /\ written' = None
    /\ Handled("Delete")
    /\ UNCHANGED <<cursor, target_line_pos, name>>

\* Key::BackTab: modify(Newline).
KeyBackTab ==
    /\ state = "Running"
    /\ Len(buffer) < MaxLen
    /\ IF cursor > Len(buffer) THEN state' = "Aborted" /\ UNCHANGED buffer
       ELSE buffer' = Insert(buffer, cursor, NL) /\ UNCHANGED state
    /\ written' = None
    /\ Handled("BackTab")
    /\ UNCHANGED <<cursor, target_line_pos, name>>

KeyLeft ==
    /\ state = "Running"
    /\ cursor' = IF cursor = 0 THEN cursor ELSE cursor - 1
    /\ written' = None
    /\ Handled("Left")
    /\ UNCHANGED <<buffer, target_line_pos, name, state>>

\* Right is capped at MaxLen + 1 once the cursor is past the end of the buffer.
KeyRight ==
    /\ state = "Running"
    /\ cursor <= MaxLen
    /\ cursor' = IF cursor = Len(buffer) THEN cursor ELSE cursor + 1
    /\ written' = None
    /\ Handled("Right")
    /\ UNCHANGED <<buffer, target_line_pos, name, state>>

KeyUp ==
    /\ state = "Running"
    /\ target_line_pos' = GetCursorOffset(buffer, cursor)[1]
    /\ Land(Up(buffer, cursor))
    /\ written' = None
    /\ Handled("Up")
    /\ UNCHANGED <<buffer, name>>

KeyDown ==
    \E checks \in BOOLEAN :
        /\ state = "Running"
        /\ target_line_pos' = GetCursorOffset(buffer, cursor)[1]
        /\ Land(Down(buffer, cursor, checks))
        /\ written' = None
        /\ Handled("Down")
        /\ UNCHANGED <<buffer, name>>

KeyEnd ==
    /\ state = "Running"
    /\ Land(CursorEndLine(buffer, cursor))
    /\ written' = None
    /\ Handled("End")
    /\ UNCHANGED <<buffer, target_line_pos, name>>

KeyHome ==
    /\ state = "Running"
    /\ Land(CursorStartLine(buffer, cursor))
    /\ written' = None
    /\ Handled("Home")
    /\ UNCHANGED <<buffer, target_line_pos, name>>

\* Any other key: the `_ => {}` arm.
KeyOther ==
    /\ state = "Running"
    /\ written' = None
    /\ Handled("Other")
    /\ UNCHANGED <<buffer, cursor, target_line_pos, name, state>>

Next ==
    \/ KeyEsc
    \/ KeySave
    \/ KeyChar
    \/ KeyBackspace
    \/ KeyDelete
    \/ KeyBackTab
    \/ KeyLeft
    \/ KeyRight
    \/ KeyUp
    \/ KeyDown
    \/ KeyEnd
    \/ KeyHome
    \/ KeyOther

Spec == Init /\ [][Next]_vars

---------------------------------------------------------------------------
(* Redrawing on terminals of other sizes                                   *)

\* The state after startup with any buffer up to MaxDrawLen, on any terminal
\* of TermSizes: the first draw_screen has run, or has panicked.
InitDraw ==
    \E checks \in BOOLEAN :
        /\ buffer \in Strings(MaxDrawLen)
        /\ name \in {None, Some(LongPath)}
        /\ cursor = 0
        /\ target_line_pos = 0
        /\ size \in TermSizes
        /\ state = IF DrawScreen(buffer, cursor, name, size, checks).panicked
                   THEN "Aborted" ELSE "Running"
        /\ written = None
        /\ key = "Start"
        /\ pre = [buffer |-> buffer, cursor |-> cursor, name |-> name]
        /\ char = ""

\* An unrecognized key on a terminal that was resized: the `_ => {}` arm and
\* the draw_screen after it.
Redraw ==
    \E s \in TermSizes, checks \in BOOLEAN :
        /\ state = "Running"
        /\ size' = s
        /\ state' = IF DrawScreen(buffer, cursor, name, s, checks).panicked
                    THEN "Aborted" ELSE "Running"
        /\ written' = None
        /\ key' = "Other"
        /\ pre' = [buffer |-> buffer, cursor |-> cursor, name |-> name]
        /\ char' = ""
        /\ UNCHANGED <<buffer, cursor, target_line_pos, name>>

DrawSpec == InitDraw /\ [][Redraw]_vars

---------------------------------------------------------------------------
(* Reference notions, by counting line feeds, independent of the code      *)

Min(a, b) == IF a <= b THEN a ELSE b

\* Line feeds in the first k characters of buf.
SepsBefore(buf, k) == {i \in 1..k : buf[i] = NL}

RefRow(buf, k) == Cardinality(SepsBefore(buf, k))

\* Characters between the last line feed before offset k (or the start) and k.
RefCol(buf, k) ==
    IF SepsBefore(buf, k) = {} THEN k
    ELSE k - (CHOOSE i \in SepsBefore(buf, k) : \A j \in SepsBefore(buf, k) : j <= i)

\* The highest row of buf.
LastRow(buf) == RefRow(buf, Len(buf))

\* Length of line r of buf: the offsets on row r, less one.
RefLineLen(buf, r) == Cardinality({k \in 0..Len(buf) : RefRow(buf, k) = r}) - 1

\* The text before the first line feed, and the text after it.
RefFirstLine(buf) == SubSeq(buf, 1, Cardinality({k \in 1..Len(buf) : RefRow(buf, k) = 0}))

RefRest(buf) == SubSeq(buf, Len(RefFirstLine(buf)) + 2, Len(buf))

\* The state the last key event found had its cursor inside the buffer.
PreInRange == pre.cursor <= Len(pre.buffer)

PreRow == RefRow(pre.buffer, pre.cursor)

PreCol == RefCol(pre.buffer, pre.cursor)

\* The cursor is on row r at column c of the buffer.
CursorAt(c, r) ==
    /\ cursor <= Len(buffer)
    /\ RefRow(buffer, cursor) = r
    /\ RefCol(buffer, cursor) = c

---------------------------------------------------------------------------
(* Claims                                                                  *)

\* C1: in every state of the running edit loop, 0 <= cursor <= len(buffer).
C1_CursorInBounds == state = "Running" => (0 <= cursor /\ cursor <= Len(buffer))

\* C2: Save never ends the edit loop: after a Save the loop is still running.
C2_SaveKeepsRunning == key = "Save" => state = "Running"

\* C3: Save on an unnamed buffer makes the first line the name, removes the
\* first line and its separator from the buffer, and writes the remaining
\* buffer to the path equal to the name.
C3_SaveUnnamed ==
    (key = "Save" /\ pre.name = None /\ pre.buffer # <<>>) =>
        /\ state = "Running"
        /\ name = Some(RefFirstLine(pre.buffer))
        /\ buffer = RefRest(pre.buffer)
        /\ written # None
        /\ written[1] = RefFirstLine(pre.buffer)
        /\ written[2] = RefRest(pre.buffer)

\* C4: for every offset k of the buffer, get_cursor_offset returns the number
\* of line feeds before k as the row and the distance from the last of them
\* (or from the buffer start) as the column.
C4_LocateCursor ==
    \A k \in 0..Len(buffer) :
        GetCursorOffset(buffer, k) = <<RefCol(buffer, k), RefRow(buffer, k)>>

\* C4 witness: get_cursor_offset was called by a move from a row below the
\* first, at a column right of the line start.
C4_Witness ==
    /\ key \in {"Up", "Down", "Home", "End"}
    /\ PreInRange
    /\ PreRow >= 1
    /\ PreCol >= 1

\* C5: Down from column c on row r, when row r + 1 exists, lands on row r + 1
\* at column min(c, length of line r + 1).
C5_DownNextLine ==
    (key = "Down" /\ PreInRange /\ PreRow < LastRow(pre.buffer)) =>
        /\ state = "Running"
        /\ CursorAt(Min(PreCol, RefLineLen(buffer, PreRow + 1)), PreRow + 1)

\* C6: Down from an interior row at a column no greater than the length of
\* both adjacent lines, followed by Up, returns the cursor to where it was.
C6_DownUpRoundTrip ==
    [][(/\ key = "Down"
        /\ PreInRange
        /\ PreRow >= 1
        /\ PreRow < LastRow(pre.buffer)
        /\ PreCol <= RefLineLen(pre.buffer, PreRow - 1)
        /\ PreCol <= RefLineLen(pre.buffer, PreRow + 1)
        /\ key' = "Up") => cursor' = pre.cursor]_vars

\* C7: a vertical move that follows a vertical move which was clamped to the
\* end of a line shorter than its start column c, and that reaches a line of
\* length >= c, lands at column c.
C7_StickyColumn ==
    [][(/\ key \in {"Up", "Down"}
        /\ cursor <= Len(buffer)
        /\ RefCol(buffer, cursor) = RefLineLen(buffer, RefRow(buffer, cursor))
        /\ RefCol(buffer, cursor) < target_line_pos
        /\ key' \in {"Up", "Down"}
        /\ state' = "Running"
        /\ cursor' <= Len(buffer')
        /\ RefRow(buffer', cursor') # RefRow(buffer, cursor)
        /\ RefLineLen(buffer', RefRow(buffer', cursor')) >= target_line_pos)
       => RefCol(buffer', cursor') = target_line_pos]_vars

\* C8: End succeeds for every buffer and every cursor inside it: the row is
\* unchanged and the column is the length of that line.
C8_End ==
    (key = "End" /\ PreInRange) =>
        /\ state = "Running"
        /\ CursorAt(RefLineLen(buffer, PreRow), PreRow)

\* C9: Down on the last row of the buffer moves the cursor to the end of that
\* line, keeps the row, and does not abort.
C9_DownOnLastLine ==
    (key = "Down" /\ PreInRange /\ PreRow = LastRow(pre.buffer)) =>
        /\ state = "Running"
        /\ CursorAt(RefLineLen(buffer, PreRow), PreRow)

\* C10: Up from column c on row r puts the cursor at 0 when r = 0, and
\* otherwise on row r - 1 at column min(c, length of line r - 1); the handler
\* returns (its walk-left loop ends without leaving the buffer).
C10_Up ==
    (key = "Up" /\ PreInRange) =>
        /\ state = "Running"
        /\ buffer = pre.buffer
        /\ IF PreRow = 0 THEN cursor = 0
           ELSE CursorAt(Min(PreCol, RefLineLen(buffer, PreRow - 1)), PreRow - 1)

\* C10 witness: Up from a row below the first walked left to a column >= 1
\* of the line above.
C10_Witness ==
    /\ key = "Up"
    /\ PreInRange
    /\ PreRow >= 1
    /\ PreCol >= 1
    /\ PreCol <= RefLineLen(pre.buffer, PreRow - 1)
    /\ state = "Running"
    /\ CursorAt(PreCol, PreRow - 1)

\* C11: insert(c) with the cursor inside the buffer increases the cursor by
\* exactly 1 and the buffer length by exactly 1, and the character at the
\* pre-insert cursor offset is c.
C11_Insert ==
    (key = "Char" /\ PreInRange) =>
        /\ state = "Running"
        /\ cursor = pre.cursor + 1
        /\ Len(buffer) = Len(pre.buffer) + 1
        /\ buffer[pre.cursor + 1] = char

\* C11 witness: a was inserted between two characters of the buffer.
C11_Witness ==
    /\ key = "Char"
    /\ char = "a"
    /\ pre.cursor >= 1
    /\ pre.cursor < Len(pre.buffer)
    /\ state = "Running"
    /\ buffer[pre.cursor + 1] = "a"

\* C12: delete_backward with cursor > 0 removes exactly the character before
\* the cursor and decreases buffer length and cursor by 1; with cursor = 0
\* it changes neither.
C12_DeleteBackward ==
    key = "Backspace" =>
        /\ state = "Running"
        /\ IF pre.cursor = 0 THEN buffer = pre.buffer /\ cursor = 0
           ELSE /\ cursor = pre.cursor - 1
                /\ Len(buffer) = Len(pre.buffer) - 1
                /\ buffer = SubSeq(pre.buffer, 1, pre.cursor - 1)
                            \o SubSeq(pre.buffer, pre.cursor + 1, Len(pre.buffer))

\* C13: insert_newline at cursor k puts a line feed at offset k and leaves
\* the cursor at k, where get_cursor_offset returns what it returned before;
\* a Right that follows it arrives at column 0 of the next row.
C13_InsertNewline ==
    [][/\ key' = "BackTab" =>
            /\ state' = "Running"
            /\ cursor' = cursor
            /\ buffer' = SubSeq(buffer, 1, cursor) \o <<NL>> \o SubSeq(buffer, cursor + 1, Len(buffer))
            /\ GetCursorOffset(buffer', cursor') = GetCursorOffset(buffer, cursor)
       /\ (key = "BackTab" /\ key' = "Right") =>
            GetCursorOffset(buffer', cursor') = <<0, GetCursorOffset(buffer, cursor)[2] + 1>>]_vars

\* C16: a name, once present, is never cleared or changed, and Save on a named
\* buffer writes the whole buffer to that path and leaves buffer, cursor and
\* name as they were.
C16_NameKept ==
    [][/\ name # None => name' = name
       /\ (key' = "Save" /\ name # None) =>
            /\ state' = "Running"
            /\ written' # None
            /\ written'[1] = name[1]
            /\ written'[2] = buffer
            /\ buffer' = buffer
            /\ cursor' = cursor
            /\ name' = name]_vars

\* C16 witness: a buffer named by its first save was saved again with text
\* in it.
C16_Witness ==
    /\ key = "Save"
    /\ pre.name # None
    /\ pre.name # Some(LoadPath)
    /\ Len(pre.buffer) >= 1
    /\ written # None
    /\ written[2] = pre.buffer

\* C17: Home with the cursor inside the buffer returns, leaves the buffer as
\* it was, and get_cursor_offset then reports column 0 on the row it was on.
C17_Home ==
    (key = "Home" /\ PreInRange) =>
        /\ state = "Running"
        /\ buffer = pre.buffer
        /\ GetCursorOffset(buffer, cursor) = <<0, PreRow>>
        /\ CursorAt(0, PreRow)

\* C17 witness: Home walked back two columns or more on a row below the first.
C17_Witness ==
    /\ key = "Home"
    /\ PreInRange
    /\ PreRow >= 1
    /\ PreCol >= 2
    /\ state = "Running"
    /\ cursor = pre.cursor - PreCol

ContentWidth(buf) ==
    LET widths == {RefLineLen(buf, r) + 1 : r \in 0..LastRow(buf)}
    IN CHOOSE m \in widths : \A n \in widths : n <= m

\* C14: in every redraw the frame's inner width is >= the length of every
\* DisplayLine and >= the length of the name label that is displayed.
C14_InnerWidth ==
    LET d     == DrawScreen(buffer, cursor, name, size, FALSE)
        inner == d.xs - 2 - X_PADDING * 2
        lines == MakeInput(buffer)[1]
    IN /\ \A i \in 1..Len(lines) : inner >= Len(lines[i])
       /\ inner >= Len(d.label)

C18_CursorOnDisplayLine ==
    state = "Running" =>
        LET pos   == GetCursorOffset(buffer, cursor)
            lines == MakeInput(buffer)[1]
        IN /\ pos[2] < Len(lines)
           /\ pos[1] < Len(lines[pos[2] + 1])

\* C20: on a terminal at least as large as the frame, the u16 computations of
\* the frame origin and of the row of the name label do not go below zero.
C20_NoUnderflow ==
    LET d == DrawScreen(buffer, cursor, name, size, TRUE)
    IN (size[1] >= d.xs /\ size[2] >= d.ys) =>
        /\ ~d.panicked
        /\ d.frame_corner[1] = size[1] \div 2 - d.xs \div 2
        /\ d.frame_corner[2] = size[2] \div 2 - d.ys \div 2
        /\ d.label_at[2] = size[2] \div 2 - d.ys \div 2 - 1

====
